---------------------------- MODULE Spec2Model ----------------------------
(***************************************************************************)
(* Model of the lobbying data explorer: streamlit_app.py ("app") and       *)
(* streamlit_json.py ("json").  Both scripts load a JSON document, flatten *)
(* it with pandas.json_normalize, derive the lobbyist / covered-position / *)
(* foreign-entity columns, build the sidebar menus, filter and display.    *)
(*                                                                         *)
(* JSON and pandas values are tagged records, so that values of different  *)
(* Python types can be compared:                                           *)
(*   [t |-> "null"]            None                                        *)
(*   [t |-> "nan"]             the NaN pandas puts in a missing cell       *)
(*   [t |-> "num", n |-> 5]    an integer                                  *)
(*   [t |-> "str", s |-> cs]   a string, cs its sequence of code points    *)
(*   [t |-> "list", l |-> sq]  a list                                      *)
(*   [t |-> "dict", d |-> f]   a dict, f a function on the keys present    *)
(*   [t |-> "raise"]           the call raised (no value is produced)      *)
(*                                                                         *)
(* The state holds the columns the scripts filter on and derive from:      *)
(* filing_year, client_name, registrant_name, lobbying_activities and      *)
(* foreign_entities.  registrant_type, filing_type_display and filing_link *)
(* are copied or formatted per row and read by no filter; they are left    *)
(* out of the rows.                                                        *)
(***************************************************************************)
EXTENDS Integers, Sequences, FiniteSets, TLC

VARIABLES variant, doc, pc, df, menus, sel, df_filtered, details, cols

vars == <<variant, doc, pc, df, menus, sel, df_filtered, details, cols>>

-----------------------------------------------------------------------------
(* Python values *)

NULL == [t |-> "null"]
NAN == [t |-> "nan"]
RAISE == [t |-> "raise"]
Num(n) == [t |-> "num", n |-> n]
Str(cs) == [t |-> "str", s |-> cs]
List(sq) == [t |-> "list", l |-> sq]
Dict(f) == [t |-> "dict", d |-> f]

IsList(v) == v.t = "list"
IsDict(v) == v.t = "dict"
IsStr(v) == v.t = "str"

\* String literals of the two scripts and of the modelled documents, as code points.
S_empty == <<>>
S_space == <<32>>
S_na == <<110, 47, 97>>
S_None == <<78, 111, 110, 101>>
S_sep == <<44, 32>>

\* Python's truth value of an object: None, 0, "", [] and {} are false.
Truthy(v) ==
  CASE v.t = "null" -> FALSE
    [] v.t = "num" -> v.n # 0
    [] v.t = "str" -> Len(v.s) > 0
    [] v.t = "list" -> Len(v.l) > 0
    [] v.t = "dict" -> DOMAIN v.d # {}
    [] OTHER -> TRUE

\* str.strip(): drops leading and trailing ASCII whitespace.
IsSpace(c) == c \in {9, 10, 11, 12, 13, 32}

RECURSIVE LStrip(_)
LStrip(cs) == IF cs # <<>> /\ IsSpace(Head(cs)) THEN LStrip(Tail(cs)) ELSE cs

RECURSIVE RStrip(_)
RStrip(cs) ==
  IF cs # <<>> /\ IsSpace(cs[Len(cs)]) THEN RStrip(SubSeq(cs, 1, Len(cs) - 1)) ELSE cs

Strip(cs) == RStrip(LStrip(cs))

\* str.lower() on ASCII.
LowerChar(c) == IF c >= 65 /\ c <= 90 THEN c + 32 ELSE c
Lower(cs) == [i \in 1..Len(cs) |-> LowerChar(cs[i])]

\* Decimal digits of a natural number, as str(int) prints them.
RECURSIVE Digits(_)
Digits(n) == IF n < 10 THEN <<48 + n>> ELSE Append(Digits(n \div 10), 48 + (n % 10))

\* str(v), and the formatting of v inside an f-string.
PyStr(v) ==
  CASE v.t = "str" -> v.s
    [] v.t = "num" -> Digits(v.n)
    [] v.t = "null" -> S_None

\* Python's ordering of strings: lexicographic by code point.
RECURSIVE StrLess(_, _)
StrLess(a, b) ==
  IF b = <<>> THEN FALSE
  ELSE IF a = <<>> THEN TRUE
  ELSE IF Head(a) # Head(b) THEN Head(a) < Head(b)
  ELSE StrLess(Tail(a), Tail(b))

\* sorted(S) for a set of strings.
RECURSIVE Sorted(_)
Sorted(S) ==
  IF S = {} THEN <<>>
  ELSE LET m == CHOOSE x \in S : \A y \in S \ {x} : StrLess(x, y)
       IN <<m>> \o Sorted(S \ {m})

\* sep.join(parts)
RECURSIVE Join(_, _)
Join(sep, parts) ==
  IF parts = <<>> THEN <<>>
  ELSE IF Len(parts) = 1 THEN parts[1]
  ELSE parts[1] \o sep \o Join(sep, Tail(parts))

Range(sq) == {sq[i] : i \in 1..Len(sq)}

RECURSIVE Flat(_)
Flat(sqs) == IF sqs = <<>> THEN <<>> ELSE Head(sqs) \o Flat(Tail(sqs))

\* d.get(key, default) on a value: a dict answers, any other object has no .get.
Get(v, key, default) ==
  IF ~IsDict(v) THEN RAISE
  ELSE IF key \in DOMAIN v.d THEN v.d[key] ELSE default

\* v[key]: KeyError on a dict without the key, TypeError on None.
Index(v, key) ==
  IF IsDict(v) /\ key \in DOMAIN v.d THEN v.d[key] ELSE RAISE

-----------------------------------------------------------------------------
(* The derivation helpers *)

\* The iteration all three lobbyist helpers share:
\*   for activity in activity_list
\*       if 'lobbyists' in activity and isinstance(activity["lobbyists"], list)
\*   for lobbyist in activity["lobbyists"]
\* The entries in order, or RAISE: `in` on None raises TypeError.
ActivityEntries(activity) ==
  IF ~IsDict(activity) THEN RAISE
  ELSE IF "lobbyists" \in DOMAIN activity.d /\ IsList(activity.d["lobbyists"])
       THEN activity.d["lobbyists"]
       ELSE List(<<>>)

LobbyistEntries(activity_list) ==
  LET per == [i \in 1..Len(activity_list.l) |-> ActivityEntries(activity_list.l[i])]
  IN IF \E i \in 1..Len(per) : per[i] = RAISE THEN RAISE
     ELSE List(Flat([i \in 1..Len(per) |-> per[i].l]))

\* f"{lobbyist['lobbyist'].get('first_name', '')} {lobbyist['lobbyist'].get('last_name', '')}".strip()
DisplayName(lobbyist) ==
  LET sub == Index(lobbyist, "lobbyist")
      first == IF sub = RAISE THEN RAISE ELSE Get(sub, "first_name", Str(S_empty))
      last == IF sub = RAISE THEN RAISE ELSE Get(sub, "last_name", Str(S_empty))
  IN IF first = RAISE \/ last = RAISE THEN RAISE
     ELSE Str(Strip(PyStr(first) \o S_space \o PyStr(last)))

\* The test both scripts apply to a stripped position: non-empty and not "n/a".
KeepPosition(pos) == pos # S_empty /\ Lower(pos) # S_na

\* streamlit_app.extract_lobbyists: the display names, one per entry, in order.
extract_lobbyists_app(activity_list) ==
  IF ~IsList(activity_list) THEN List(<<>>)
  ELSE LET es == LobbyistEntries(activity_list)
       IN IF es = RAISE THEN RAISE
          ELSE LET names == [i \in 1..Len(es.l) |-> DisplayName(es.l[i])]
               IN IF \E i \in 1..Len(names) : names[i] = RAISE THEN RAISE
                  ELSE List(names)

\* One entry of extract_covered_positions' comprehension: NULL when the filter
\* `if lobbyist.get("covered_position")` drops it, else the stripped str().
AppPosition(lobbyist) ==
  LET cp == Get(lobbyist, "covered_position", Str(S_empty))
  IN IF cp = RAISE THEN RAISE
     ELSE IF ~Truthy(Get(lobbyist, "covered_position", NULL)) THEN NULL
     ELSE Str(Strip(PyStr(cp)))

\* streamlit_app.extract_covered_positions: the sorted distinct positions.
extract_covered_positions(activity_list) ==
  IF ~IsList(activity_list) THEN List(<<>>)
  ELSE LET es == LobbyistEntries(activity_list)
       IN IF es = RAISE THEN RAISE
          ELSE LET ps == [i \in 1..Len(es.l) |-> AppPosition(es.l[i])]
               IN IF \E i \in 1..Len(ps) : ps[i] = RAISE THEN RAISE
                  ELSE LET positions == {ps[i].s : i \in {j \in 1..Len(ps) : IsStr(ps[j])}}
                       IN List(Sorted({pos \in positions : KeepPosition(pos)}))

\* lobbyist.get("covered_position", "").strip() of streamlit_json: only a
\* string has .strip().
JsonPosition(lobbyist) ==
  LET cp == Get(lobbyist, "covered_position", Str(S_empty))
  IN IF cp = RAISE \/ ~IsStr(cp) THEN RAISE ELSE Str(Strip(cp.s))

\* MergeLobbyist with the position assigned instead of added to the name's set.
MergeLobbyistOverwrite(lobbyist_dict, name, covered_position) ==
  IF name = S_empty THEN lobbyist_dict
  ELSE LET known == \E i \in 1..Len(lobbyist_dict) : lobbyist_dict[i].name = name
           d1 == IF known THEN lobbyist_dict
                 ELSE Append(lobbyist_dict, [name |-> name, positions |-> {}])
       IN IF KeepPosition(covered_position)
          THEN [i \in 1..Len(d1) |->
                  IF d1[i].name = name
                  THEN [d1[i] EXCEPT !.positions = {covered_position}]
                  ELSE d1[i]]
          ELSE d1

\* The body of streamlit_json.extract_lobbyists' inner loop on lobbyist_dict,
\* kept as a sequence of [name, positions] in insertion order.
MergeLobbyist(lobbyist_dict, name, covered_position) ==
  IF name = S_empty THEN lobbyist_dict
  ELSE LET known == \E i \in 1..Len(lobbyist_dict) : lobbyist_dict[i].name = name
           d1 == IF known THEN lobbyist_dict
                 ELSE Append(lobbyist_dict, [name |-> name, positions |-> {}])
       IN IF KeepPosition(covered_position)
          THEN [i \in 1..Len(d1) |->
                  IF d1[i].name = name
                  THEN [d1[i] EXCEPT !.positions = @ \cup {covered_position}]
                  ELSE d1[i]]
          ELSE d1

RECURSIVE MergeAll(_, _)
MergeAll(lobbyist_dict, entries) ==
  IF entries = <<>> THEN List(lobbyist_dict)
  ELSE LET name == DisplayName(Head(entries))
           cp == JsonPosition(Head(entries))
       IN IF name = RAISE \/ cp = RAISE THEN RAISE
          ELSE LET next == MergeLobbyist(lobbyist_dict, name.s, cp.s)
               IN MergeAll(next, Tail(entries))

\* streamlit_json.extract_lobbyists: [{"name": k, "positions": list(v)}] in
\* first-seen order of the names.  list(v) of a Python set has no defined order
\* and nothing downstream reads it (line 69 sorts), so positions stays a set.
extract_lobbyists_json(activity_list) ==
  IF ~IsList(activity_list) THEN List(<<>>)
  ELSE LET es == LobbyistEntries(activity_list)
       IN IF es = RAISE THEN RAISE
          ELSE MergeAll(<<>>, es.l)

\* streamlit_json line 69 and 72 on one row's lobbyists:
\* ", ".join(sorted(set(all positions))), then "" replaced by "None".
covered_positions_json(lobbyists) ==
  LET all == UNION {lobbyists.l[i].positions : i \in 1..Len(lobbyists.l)}
      joined == Join(S_sep, Sorted(all))
  IN Str(IF joined = S_empty THEN S_None ELSE joined)

\* streamlit_json line 68: ", ".join(names).
lobbyist_names_json(lobbyists) ==
  Str(Join(S_sep, [i \in 1..Len(lobbyists.l) |-> lobbyists.l[i].name]))

\* streamlit_app line 43: [e["name"] for e in x] if isinstance(x, list) else [].
foreign_entities_app(x) ==
  IF ~IsList(x) THEN List(<<>>)
  ELSE LET ns == [i \in 1..Len(x.l) |-> Index(x.l[i], "name")]
       IN IF \E i \in 1..Len(ns) : ns[i] = RAISE THEN RAISE ELSE List(ns)

\* streamlit_json.extract_foreign_entities:
\* [e["name"] for e in entities_list if "name" in e], [] for a non-list.
extract_foreign_entities(entities_list) ==
  IF ~IsList(entities_list) THEN List(<<>>)
  ELSE IF \E i \in 1..Len(entities_list.l) : ~IsDict(entities_list.l[i]) THEN RAISE
  ELSE List(Flat([i \in 1..Len(entities_list.l) |->
                    IF "name" \in DOMAIN entities_list.l[i].d
                    THEN <<entities_list.l[i].d["name"]>> ELSE <<>>]))

-----------------------------------------------------------------------------
(* Documents *)

\* A key the document does not carry (never a value of the program).
ABSENT == [t |-> "absent"]

\* The dict with the keys of f whose value is not ABSENT.
MkDict(f) == Dict([k \in {k \in DOMAIN f : f[k] # ABSENT} |-> f[k]])

S_J == <<74>>
S_D == <<68>>
S_S == <<83>>
S_A == <<65>>

EntryOf(sub, cp) == MkDict([lobbyist |-> sub, covered_position |-> cp])

\* The `lobbyist` sub-objects of well-formed entries: display names "J D", "D"
\* (first_name absent) and "".
NameJD == MkDict([first_name |-> Str(S_J), last_name |-> Str(S_D)])
NameD == MkDict([first_name |-> ABSENT, last_name |-> Str(S_D)])
NameEmpty == MkDict([first_name |-> Str(S_empty), last_name |-> Str(S_empty)])

\* covered_position of well-formed entries: absent or a string; " ", " N/a"
\* and "S " only differ from "", "n/a" and "S" before cleaning.
PosStrings == {Str(S_space), Str(<<32, 78, 47, 97>>), Str(S_S), Str(<<83, 32>>), Str(S_A)}

WellFormedEntries ==
  { EntryOf(NameJD, cp) : cp \in PosStrings \cup {ABSENT} }
  \cup { EntryOf(NameD, cp) : cp \in {Str(S_S), Str(S_A)} }
  \cup { EntryOf(NameEmpty, Str(S_A)) }

\* Entries of a malformed shape: not a mapping, `lobbyist` absent or null,
\* covered_position null or a number.
MalformedEntries ==
  { NULL,
    EntryOf(ABSENT, Str(S_S)),
    EntryOf(NULL, Str(S_S)),
    EntryOf(NameJD, NULL),
    EntryOf(NameJD, Num(5)) }

LobbyistEntrySet == WellFormedEntries \cup MalformedEntries

\* Bounds of the documents: activities per filing, lobbyist entries per filing.
MaxActivities == 2
MaxEntries == 2

SeqsUpTo(S, n) == UNION {[1..k -> S] : k \in 0..n}

\* Activities without a usable lobbyists list: not a mapping, lobbyists absent,
\* null or not a list.
BareActivities ==
  { NULL,
    MkDict([id |-> Num(1), lobbyists |-> ABSENT]),
    MkDict([id |-> Num(1), lobbyists |-> NULL]),
    MkDict([id |-> Num(1), lobbyists |-> Str(S_S)]) }

\* The shape of a list of activities: per activity, a bare activity or the
\* number of lobbyist entries of its list.
ShapeSet == SeqsUpTo(BareActivities \cup {Num(k) : k \in 0..MaxEntries}, MaxActivities)

RECURSIVE ShapeEntries(_)
ShapeEntries(shape) ==
  IF shape = <<>> THEN 0
  ELSE (IF Head(shape).t = "num" THEN Head(shape).n ELSE 0) + ShapeEntries(Tail(shape))

\* The activities of a shape, its lists filled with the entries es in order.
RECURSIVE FillShape(_, _)
FillShape(shape, es) ==
  IF shape = <<>> THEN <<>>
  ELSE IF Head(shape).t = "num"
       THEN <<MkDict([id |-> Num(1), lobbyists |-> List(SubSeq(es, 1, Head(shape).n))])>>
            \o FillShape(Tail(shape), SubSeq(es, Head(shape).n + 1, Len(es)))
       ELSE <<Head(shape)>> \o FillShape(Tail(shape), es)

\* The lobbying_activities values that are no list.
NonListValues == {ABSENT, NULL, Str(S_S)}

-----------------------------------------------------------------------------
(* The lobbyist helpers applied to one row *)

\* One filing whose lobbying_activities is any of the modelled values: a
\* non-list, or at most MaxActivities activities holding at most MaxEntries
\* entries in all.  The helpers of both scripts are applied to its row.
\* The cell pandas.json_normalize gives a row for a column: NaN when the
\* filing lacks the key (and another filing has it).
Cell(filing, col) == IF col \in DOMAIN filing.d THEN filing.d[col] ELSE NAN

InitLobbyists ==
  /\ \/ \E v \in NonListValues :
          doc = <<MkDict([filing_year |-> Num(2023), lobbying_activities |-> v])>>
     \/ \E n \in 0..MaxEntries :
          \E shape \in {sh \in ShapeSet : ShapeEntries(sh) = n}, es \in [1..n -> LobbyistEntrySet] :
            doc = <<MkDict([filing_year |-> Num(2023),
                            lobbying_activities |-> List(FillShape(shape, es))])>>
  /\ variant = "both"
  /\ pc = "row"
  /\ df = NULL
  /\ menus = NULL
  /\ sel = NULL
  /\ df_filtered = NULL
  /\ details = NULL
  /\ cols = NULL

\* df["lobbying_activities"].apply(...) of both scripts on the row, and
\* streamlit_json's lines 68-72 on its result.
DeriveLobbyists ==
  /\ pc = "row"
  /\ LET x == Cell(doc[1], "lobbying_activities")
         lj == extract_lobbyists_json(x)
     IN cols' = [lobbyists_app |-> extract_lobbyists_app(x),
                 covered_positions_app |-> extract_covered_positions(x),
                 lobbyists_json |-> lj,
                 covered_positions_json |-> IF lj = RAISE THEN RAISE ELSE covered_positions_json(lj)]
  /\ pc' = "derived"
  /\ UNCHANGED <<variant, doc, df, menus, sel, df_filtered, details>>

NextLobbyists == DeriveLobbyists

SpecLobbyists == InitLobbyists /\ [][NextLobbyists]_vars

-----------------------------------------------------------------------------
(* The whole script: load, derive, sidebar, filter, display *)

\* The load raised at the statement that reads or derives column `at`.
Raised(at, err) == [t |-> "raise", at |-> at, err |-> err]
Frame(columns, rows) == [t |-> "frame", columns |-> columns, rows |-> rows]

\* pandas' nested_to_record: a nested dict contributes its leaves under the
\* path joined with "_"; lists and scalars pass through.  <<column, value>> pairs.
RECURSIVE nested_to_record(_, _)
nested_to_record(d, prefix) ==
  UNION { LET newkey == IF prefix = "" THEN k ELSE prefix \o "_" \o k
          IN IF IsDict(d[k]) THEN nested_to_record(d[k].d, newkey)
             ELSE {<<newkey, d[k]>>} : k \in DOMAIN d }

\* pd.json_normalize(data, sep="_"): one row per filing, the columns are the
\* flattened keys of all filings, a key a filing lacks is NaN in its row.
json_normalize(data) ==
  LET recs == [i \in 1..Len(data) |-> nested_to_record(data[i].d, "")]
      columns == UNION {{p[1] : p \in recs[i]} : i \in 1..Len(data)}
  IN Frame(columns,
           [i \in 1..Len(data) |->
              [c \in columns |->
                 IF \E p \in recs[i] : p[1] = c
                 THEN (CHOOSE p \in recs[i] : p[1] = c)[2] ELSE NAN]])

IsMissing(v) == v.t \in {"nan", "null"}

\* The first failure of a sequence of <<condition, failure>> steps, or `ok`.
RECURSIVE FirstFailure(_, _)
FirstFailure(steps, ok) ==
  IF steps = <<>> THEN ok
  ELSE IF Head(steps)[1] THEN Head(steps)[2] ELSE FirstFailure(Tail(steps), ok)

\* streamlit_app lines 11-64: the table the script builds, or the statement
\* that raised.  astype(int) raises on a missing and on a non-numeric value.
LoadApp(data) ==
  LET frame == json_normalize(data)
      has(c) == c \in frame.columns
      fe == [i \in 1..Len(data) |-> foreign_entities_app(frame.rows[i]["foreign_entities"])]
      lob == [i \in 1..Len(data) |-> extract_lobbyists_app(frame.rows[i]["lobbying_activities"])]
      cov == [i \in 1..Len(data) |-> extract_covered_positions(frame.rows[i]["lobbying_activities"])]
  IN FirstFailure(
       << <<~has("filing_year"), Raised("filing_year", "KeyError")>>,
          <<has("filing_year") /\ \E i \in 1..Len(data) : frame.rows[i]["filing_year"].t # "num",
            Raised("filing_year", "astype")>>,
          <<~has("foreign_entities"), Raised("foreign_entities", "KeyError")>>,
          <<has("foreign_entities") /\ \E i \in 1..Len(data) : fe[i] = RAISE,
            Raised("foreign_entities", "apply")>>,
          <<~has("lobbying_activities"), Raised("lobbying_activities", "KeyError")>>,
          <<has("lobbying_activities") /\ \E i \in 1..Len(data) : lob[i] = RAISE \/ cov[i] = RAISE,
            Raised("lobbying_activities", "apply")>>,
          <<~has("registrant_name"), Raised("registrant_name", "KeyError")>>,
          <<~has("client_name"), Raised("client_name", "KeyError")>> >>,
       Frame({"filing_year", "registrant_name", "client_name", "lobbyists",
              "covered_positions", "foreign_entities"},
             [i \in 1..Len(data) |->
                [filing_year |-> frame.rows[i]["filing_year"],
                 registrant_name |-> frame.rows[i]["registrant_name"],
                 client_name |-> frame.rows[i]["client_name"],
                 lobbyists |-> lob[i],
                 covered_positions |-> cov[i],
                 foreign_entities |-> fe[i]]]))

\* streamlit_json lines 12-72 and the column reads of lines 80-81.
\* astype("Int64") turns a missing value into <NA> and raises on a non-numeric one.
LoadJson(data) ==
  LET frame == json_normalize(data)
      has(c) == c \in frame.columns
      fe == [i \in 1..Len(data) |-> extract_foreign_entities(frame.rows[i]["foreign_entities"])]
      lob == [i \in 1..Len(data) |-> extract_lobbyists_json(frame.rows[i]["lobbying_activities"])]
  IN FirstFailure(
       << <<~has("foreign_entities"), Raised("foreign_entities", "KeyError")>>,
          <<has("foreign_entities") /\ \E i \in 1..Len(data) : fe[i] = RAISE,
            Raised("foreign_entities", "apply")>>,
          <<~has("lobbying_activities"), Raised("lobbying_activities", "KeyError")>>,
          <<has("lobbying_activities") /\ \E i \in 1..Len(data) : lob[i] = RAISE,
            Raised("lobbying_activities", "apply")>>,
          <<~has("filing_year"), Raised("filing_year", "KeyError")>>,
          <<has("filing_year") /\ \E i \in 1..Len(data) :
              ~IsMissing(frame.rows[i]["filing_year"]) /\ frame.rows[i]["filing_year"].t # "num",
            Raised("filing_year", "astype")>>,
          <<~has("client_name"), Raised("client_name", "KeyError")>>,
          <<~has("registrant_name"), Raised("registrant_name", "KeyError")>> >>,
       Frame({"filing_year", "registrant_name", "client_name", "lobbyists",
              "lobbyist_names", "covered_positions", "foreign_entities"},
             [i \in 1..Len(data) |->
                [filing_year |-> IF IsMissing(frame.rows[i]["filing_year"]) THEN NAN
                                 ELSE frame.rows[i]["filing_year"],
                 registrant_name |-> frame.rows[i]["registrant_name"],
                 client_name |-> frame.rows[i]["client_name"],
                 lobbyists |-> lob[i],
                 lobbyist_names |-> lobbyist_names_json(lob[i]),
                 covered_positions |-> covered_positions_json(lob[i]),
                 foreign_entities |-> fe[i]]]))

\* Python's < on two numbers or on two strings.
ValLess(a, b) == IF a.t = "num" THEN a.n < b.n ELSE StrLess(a.s, b.s)

\* sorted(S) for a set of numbers or of strings.
RECURSIVE SortedVals(_)
SortedVals(S) ==
  IF S = {} THEN <<>>
  ELSE LET m == CHOOSE x \in S : \A y \in S \ {x} : ValLess(x, y)
       IN <<m>> \o SortedVals(S \ {m})

\* sorted(column.dropna().unique())
DistinctValues(rows, c) ==
  SortedVals({rows[i][c] : i \in {j \in 1..Len(rows) : ~IsMissing(rows[j][c])}})

\* sorted(set([e for sublist in column for e in sublist]))
DistinctElements(rows, c) ==
  SortedVals(UNION {Range(rows[i][c].l) : i \in 1..Len(rows)})

\* The option lists of the sidebar; streamlit_json has no lobbyist selectbox.
SidebarMenus(v, rows) ==
  [year |-> DistinctValues(rows, "filing_year"),
   client |-> DistinctValues(rows, "client_name"),
   registrant |-> DistinctValues(rows, "registrant_name"),
   foreign |-> DistinctElements(rows, "foreign_entities"),
   lobbyist_list |-> IF v = "app" THEN DistinctElements(rows, "lobbyists") ELSE <<>>]

\* if year_filter: df_filtered = df_filtered[df_filtered["filing_year"].isin(year_filter)]
FilterYear(rows, s) ==
  IF s.year # {} THEN SelectSeq(rows, LAMBDA r : r.filing_year \in s.year) ELSE rows

\* FilterClient selecting from the unfiltered table, which undoes the filters
\* applied before it.
FilterClientOnBase(rows, s) ==
  IF s.client # {} THEN SelectSeq(df.rows, LAMBDA r : r.client_name \in s.client) ELSE rows

FilterClient(rows, s) ==
  IF s.client # {} THEN SelectSeq(rows, LAMBDA r : r.client_name \in s.client) ELSE rows

FilterRegistrant(rows, s) ==
  IF s.registrant # {} THEN SelectSeq(rows, LAMBDA r : r.registrant_name \in s.registrant)
  ELSE rows

\* ...apply(lambda x: any(entity in x for entity in foreign_filter))
FilterForeign(rows, s) ==
  IF s.foreign # {}
  THEN SelectSeq(rows, LAMBDA r : \E entity \in s.foreign : entity \in Range(r.foreign_entities.l))
  ELSE rows

\* if lobbyist_filter: ...apply(lambda x: lobbyist_filter in x)   (streamlit_app)
FilterLobbyist(rows, s) ==
  IF s.lobbyist # Str(S_empty)
  THEN SelectSeq(rows, LAMBDA r : s.lobbyist \in Range(r.lobbyists.l))
  ELSE rows

ApplyFilter(name, rows, s) ==
  CASE name = "year" -> FilterYear(rows, s)
    [] name = "client" -> FilterClient(rows, s)
    [] name = "registrant" -> FilterRegistrant(rows, s)
    [] name = "foreign" -> FilterForeign(rows, s)
    [] name = "lobbyist" -> FilterLobbyist(rows, s)

RECURSIVE ApplyInOrder(_, _, _)
ApplyInOrder(order, rows, s) ==
  IF order = <<>> THEN rows
  ELSE ApplyInOrder(Tail(order), ApplyFilter(Head(order), rows, s), s)

\* The order in which each script applies its filters.
FilterOrder(v) ==
  IF v = "app" THEN <<"year", "client", "registrant", "foreign", "lobbyist">>
  ELSE <<"year", "client", "registrant", "foreign">>

\* streamlit_app lines 110-130: the details of the selected lobbyist, read from
\* the unfiltered table.
LobbyistDetails(rows, lobbyist_filter) ==
  LET lobbyist_info == SelectSeq(rows, LAMBDA r : lobbyist_filter \in Range(r.lobbyists.l))
  IN [lobbyist |-> lobbyist_filter,
      foreign_entities |-> UNION {Range(lobbyist_info[i].foreign_entities.l) : i \in 1..Len(lobbyist_info)},
      covered_positions |-> UNION {Range(lobbyist_info[i].covered_positions.l) : i \in 1..Len(lobbyist_info)}]

-----------------------------------------------------------------------------
(* Documents of the whole-script specification *)

MaxFilings == 2

S_C == <<67>>
S_R == <<82>>
S_F == <<70>>
S_abc == <<97, 98, 99>>

ActivityOf(es) == MkDict([id |-> Num(1), lobbyists |-> List(es)])
EntityOf(name) == MkDict([name |-> name, country |-> Str(S_C)])

FilingOf(year, client, registrant, activities, entities) ==
  MkDict([filing_year |-> year,
          client |-> IF client = ABSENT THEN ABSENT ELSE MkDict([name |-> client]),
          registrant |-> IF registrant = ABSENT THEN ABSENT ELSE MkDict([name |-> registrant]),
          lobbying_activities |-> activities,
          foreign_entities |-> entities])

\* One activity: "J D" held "S", "D" held "A".
TwoLobbyists == List(<<ActivityOf(<<EntryOf(NameJD, Str(S_S)), EntryOf(NameD, Str(S_A))>>)>>)

\* Two activities: "D" without a position, a nameless lobbyist who held "S".
NamelessLobbyist ==
  List(<<ActivityOf(<<EntryOf(NameD, ABSENT)>>), ActivityOf(<<EntryOf(NameEmpty, Str(S_S))>>)>>)

\* The filings documents are made of: well-formed ones that differ in every
\* filtered column, and ones with a missing or malformed field.
FilingSet ==
  { FilingOf(Num(2023), Str(S_C), Str(S_R), TwoLobbyists, List(<<EntityOf(Str(S_F))>>)),
    FilingOf(Num(2024), Str(S_empty), ABSENT, TwoLobbyists, List(<<EntityOf(Str(S_F))>>)),
    FilingOf(Num(2024), Str(S_C), Str(S_R), NamelessLobbyist,
             List(<<EntityOf(Str(S_empty)), EntityOf(Str(S_F))>>)),
    FilingOf(Num(2023), ABSENT, Str(S_R), List(<<>>), ABSENT),
    FilingOf(Num(2023), Str(S_C), Str(S_R), ABSENT, List(<<>>)),
    FilingOf(Num(2024), Str(S_C), Str(S_R), NULL, List(<<EntityOf(ABSENT), EntityOf(Str(S_F))>>)),
    FilingOf(ABSENT, Str(S_C), Str(S_R), TwoLobbyists, List(<<EntityOf(Str(S_F))>>)),
    FilingOf(Str(S_abc), Str(S_C), Str(S_R), NamelessLobbyist, List(<<EntityOf(Str(S_F))>>)) }

Init ==
  /\ variant \in {"app", "json"}
  /\ doc \in SeqsUpTo(FilingSet, MaxFilings)
  /\ pc = "start"
  /\ df = NULL
  /\ menus = NULL
  /\ sel = NULL
  /\ df_filtered = NULL
  /\ details = NULL
  /\ cols = NULL

\* The script runs from json.load to the derived columns.
Load ==
  /\ pc = "start"
  /\ df' = IF variant = "app" THEN LoadApp(doc) ELSE LoadJson(doc)
  /\ pc' = IF df'.t = "raise" THEN "error" ELSE "loaded"
  /\ UNCHANGED <<variant, doc, menus, sel, df_filtered, details, cols>>

\* The sidebar is drawn and the user's selections are read.
Sidebar ==
  /\ pc = "loaded"
  /\ menus' = SidebarMenus(variant, df.rows)
  /\ \E yf \in SUBSET Range(menus'.year), cf \in SUBSET Range(menus'.client),
        rf \in SUBSET Range(menus'.registrant), ff \in SUBSET Range(menus'.foreign),
        lf \in {Str(S_empty)} \cup Range(menus'.lobbyist_list) :
       sel' = [year |-> yf, client |-> cf, registrant |-> rf, foreign |-> ff, lobbyist |-> lf]
  /\ df_filtered' = df.rows
  /\ pc' = "selected"
  /\ UNCHANGED <<variant, doc, df, details, cols>>

\* The filters are applied in the script's order.
ApplyFilters ==
  /\ pc = "selected"
  /\ df_filtered' = ApplyInOrder(FilterOrder(variant), df_filtered, sel)
  /\ pc' = "filtered"
  /\ UNCHANGED <<variant, doc, df, menus, sel, details, cols>>

\* The table and charts are shown; streamlit_app adds the lobbyist's details.
Display ==
  /\ pc = "filtered"
  /\ details' = IF variant = "app" /\ sel.lobbyist # Str(S_empty)
                THEN LobbyistDetails(df.rows, sel.lobbyist) ELSE NULL
  /\ pc' = "done"
  /\ UNCHANGED <<variant, doc, df, menus, sel, df_filtered, cols>>

Next == Load \/ Sidebar \/ ApplyFilters \/ Display

Spec == Init /\ [][Next]_vars

-----------------------------------------------------------------------------
(* What the claims about the lobbyist columns speak of, read off the document *)

\* The lobbyist entries of a filing that sit in a mapping activity with a list
\* of lobbyists, in document order.
RECURSIVE DocEntries(_)
DocEntries(as) ==
  IF as = <<>> THEN <<>>
  ELSE (IF IsDict(Head(as)) /\ "lobbyists" \in DOMAIN Head(as).d
           /\ IsList(Head(as).d["lobbyists"])
        THEN Head(as).d["lobbyists"].l ELSE <<>>) \o DocEntries(Tail(as))

FilingEntries(filing) ==
  LET x == Cell(filing, "lobbying_activities")
  IN IF IsList(x) THEN DocEntries(x.l) ELSE <<>>

\* An entry is well shaped when it is a mapping with a `lobbyist` mapping.
WellShaped(e) == IsDict(e) /\ "lobbyist" \in DOMAIN e.d /\ IsDict(e.d["lobbyist"])

\* Its covered_position is a string or absent.
StringPosition(e) ==
  IsDict(e) /\ ("covered_position" \in DOMAIN e.d => IsStr(e.d["covered_position"]))

\* The display name of a well-shaped entry: trimmed "first last".
NameOf(e) ==
  LET sub == e.d["lobbyist"].d
      part(k) == IF k \in DOMAIN sub THEN PyStr(sub[k]) ELSE <<>>
  IN Strip(part("first_name") \o <<32>> \o part("last_name"))

\* A cleaned position: trimmed, non-empty, not "n/a" in any case.
IsCleaned(p) == p # <<>> /\ Lower(p) # <<110, 47, 97>>

\* The cleaned positions of a set of entries (null and absent give none,
\* another value is coerced to a string first).
CleanedPositions(es) ==
  { p \in { Strip(PyStr(e.d["covered_position"])) :
             e \in { e \in es : IsDict(e) /\ "covered_position" \in DOMAIN e.d
                                 /\ e.d["covered_position"] # NULL } } : IsCleaned(p) }

AllActivitiesMappings(filing) ==
  LET x == Cell(filing, "lobbying_activities")
  IN IsList(x) => \A i \in 1..Len(x.l) : IsDict(x.l[i])

\* C1: deriving the lobbyist columns never raises on a malformed nested shape
\* (an activity that is not a mapping, lobbyists absent/null/non-list, a
\* `lobbyist` sub-object absent or null); the malformed sub-value contributes
\* nothing.  Stated for filings whose covered positions are strings or absent.
C1_NeverRaisesOnMalformedShape ==
  (pc = "derived" /\ \A e \in Range(FilingEntries(doc[1])) : StringPosition(e))
  => /\ cols.lobbyists_app # RAISE
     /\ cols.covered_positions_app # RAISE
     /\ cols.lobbyists_json # RAISE
     /\ cols.lobbyists_app =
          List([i \in 1..Len(SelectSeq(FilingEntries(doc[1]), WellShaped)) |->
                  Str(NameOf(SelectSeq(FilingEntries(doc[1]), WellShaped)[i]))])

\* C2: covered_position may be a string, absent, null or a non-string; it is
\* coerced to a string before trimming, so no helper raises on it, and a
\* null/absent value yields no position.  Stated for well-shaped filings.
C2_PositionCoerced ==
  (pc = "derived" /\ AllActivitiesMappings(doc[1])
     /\ \A e \in Range(FilingEntries(doc[1])) : WellShaped(e))
  => /\ cols.lobbyists_app # RAISE
     /\ cols.covered_positions_app # RAISE
     /\ cols.lobbyists_json # RAISE
     /\ Range(cols.covered_positions_app.l) = CleanedPositions(Range(FilingEntries(doc[1])))

\* C4: in the output of streamlit_json's extract_lobbyists each display name
\* occurs in exactly one entry, and that entry's positions are the union of the
\* cleaned positions of every lobbyist entry of the filing with that display
\* name.  The names of the output are the non-empty display names, in
\* first-seen order.
C4_MergedByName ==
  (pc = "derived" /\ cols.lobbyists_json # RAISE)
  => LET out == cols.lobbyists_json.l
         es == FilingEntries(doc[1])
     IN /\ \A i, j \in 1..Len(out) : out[i].name = out[j].name => i = j
        /\ {out[i].name : i \in 1..Len(out)} = {NameOf(e) : e \in Range(es)} \ {<<>>}
        /\ \A i \in 1..Len(out) :
             out[i].positions = CleanedPositions({e \in Range(es) : NameOf(e) = out[i].name})
        /\ \A i, j \in 1..Len(out) :
             i < j => \E a \in 1..Len(es) :
                        /\ NameOf(es[a]) = out[i].name
                        /\ \A b \in 1..a : NameOf(es[b]) # out[j].name

\* Witness of C4: two entries of one name in different activities carry
\* different positions, one more needing cleaning, and the output merged them.
C4_Witness ==
  /\ pc = "derived"
  /\ cols.lobbyists_json # RAISE
  /\ IsList(Cell(doc[1], "lobbying_activities"))
  /\ Len(Cell(doc[1], "lobbying_activities").l) = 2
  /\ \A i \in 1..2 : ActivityEntries(Cell(doc[1], "lobbying_activities").l[i]) # RAISE
  /\ \A i \in 1..2 : Len(ActivityEntries(Cell(doc[1], "lobbying_activities").l[i]).l) = 1
  /\ \E i \in 1..Len(cols.lobbyists_json.l) :
       Cardinality(cols.lobbyists_json.l[i].positions) = 2

\* A joined covered_positions string of streamlit_json read back as a set of values.
RECURSIVE SplitOnSep(_, _)
SplitOnSep(cs, cur) ==
  IF cs = <<>> THEN {cur}
  ELSE IF Len(cs) >= 2 /\ SubSeq(cs, 1, 2) = <<44, 32>>
       THEN {cur} \cup SplitOnSep(SubSeq(cs, 3, Len(cs)), <<>>)
       ELSE SplitOnSep(Tail(cs), Append(cur, Head(cs)))

ReadJoined(v) == IF v.s = <<78, 111, 110, 101>> THEN {} ELSE SplitOnSep(v.s, <<>>)

\* C5: in both variants the row's covered_positions, read as a set, is the
\* union of the cleaned positions of all lobbyist entries of the filing,
\* whatever their display name, and holds neither "" nor a case variant of "n/a".
C5_AllPositions ==
  (pc = "derived" /\ cols.covered_positions_app # RAISE /\ cols.covered_positions_json # RAISE)
  => /\ Range(cols.covered_positions_app.l) = CleanedPositions(Range(FilingEntries(doc[1])))
     /\ ReadJoined(cols.covered_positions_json) = CleanedPositions(Range(FilingEntries(doc[1])))
     /\ \A p \in Range(cols.covered_positions_app.l) \cup ReadJoined(cols.covered_positions_json) :
          IsCleaned(p)

-----------------------------------------------------------------------------
(* Claims about the whole script *)

RawCell(i, c) == Cell(doc[i], c)

\* C3: for every filing whose lobbying_activities is absent, null or not a
\* sequence, in one filing or in every filing of the document, the derived
\* lobbyists of that row are empty and the load does not raise.
C3_NonSequenceGivesEmpty ==
  pc # "start"
  => /\ ~(df.t = "raise" /\ df.at = "lobbying_activities" /\ df.err = "KeyError")
     /\ df.t = "frame"
        => \A i \in 1..Len(doc) :
             ~IsList(RawCell(i, "lobbying_activities")) => df.rows[i].lobbyists = List(<<>>)

\* The names of the entities that have one, in input order.
RECURSIVE EntityNames(_)
EntityNames(es) ==
  IF es = <<>> THEN <<>>
  ELSE (IF IsDict(Head(es)) /\ "name" \in DOMAIN Head(es).d THEN <<Head(es).d["name"]>> ELSE <<>>)
       \o EntityNames(Tail(es))

\* C6: deriving foreign_entities yields the empty collection for a non-sequence
\* and otherwise the names in input order, an entry without `name` being
\* skipped without raising, in both variants.
C6_ForeignEntitiesFailSoft ==
  pc # "start"
  => /\ ~(df.t = "raise" /\ df.at = "foreign_entities" /\ df.err = "apply")
     /\ df.t = "frame"
        => \A i \in 1..Len(doc) :
             df.rows[i].foreign_entities =
               IF IsList(RawCell(i, "foreign_entities"))
               THEN List(EntityNames(RawCell(i, "foreign_entities").l)) ELSE List(<<>>)

\* C7: a filing_year that is missing or not convertible to an integer does not
\* abort the load: there is one row per filing, that row's filing_year is
\* absent and no year menu offers it.
C7_BadYearDoesNotAbort ==
  pc # "start"
  => /\ ~(df.t = "raise" /\ df.at = "filing_year" /\ df.err = "astype")
     /\ df.t = "frame"
        => /\ Len(df.rows) = Len(doc)
           /\ \A i \in 1..Len(doc) :
                RawCell(i, "filing_year").t # "num" => df.rows[i].filing_year = NAN
           /\ menus # NULL => NAN \notin Range(menus.year)

\* C9: no sidebar menu offers the empty string as an option taken from the data.
C9_NoEmptyOption ==
  menus # NULL
  => Str(<<>>) \notin Range(menus.client) \cup Range(menus.registrant)
                      \cup Range(menus.foreign) \cup Range(menus.lobbyist_list)

\* All lobbyist entries of the document.
AllEntries == UNION {Range(FilingEntries(doc[i])) : i \in 1..Len(doc)}

\* C10: the "Past Covered Positions" of the selected lobbyist are the positions
\* some entry of that lobbyist carries, in some filing of the document.
C10_DetailsAreOwnPositions ==
  (pc = "done" /\ details # NULL)
  => details.covered_positions =
       CleanedPositions({e \in AllEntries : NameOf(e) = details.lobbyist.s})

\* The orders in which the filters of a script can be applied.
Orders(names) ==
  { [i \in 1..Len(names) |-> names[f[i]]] :
      f \in {g \in [1..Len(names) -> 1..Len(names)] :
               \A i, j \in 1..Len(names) : g[i] = g[j] => i = j} }

AppOrders == Orders(FilterOrder("app"))
JsonOrders == Orders(FilterOrder("json"))

\* A row passes every active filter (an empty selection is not active).
Passes(r) ==
  /\ sel.year # {} => r.filing_year \in sel.year
  /\ sel.client # {} => r.client_name \in sel.client
  /\ sel.registrant # {} => r.registrant_name \in sel.registrant
  /\ sel.foreign # {} => Range(r.foreign_entities.l) \cap sel.foreign # {}
  /\ (variant = "app" /\ sel.lobbyist # Str(<<>>)) => sel.lobbyist \in Range(r.lobbyists.l)

=============================================================================
